---- MODULE Spec2Model ----
(***************************************************************************)
(* Model of rfidSimulator.py: the Moto entity, the RFIDReader and the      *)
(* MottuPatioSimulation engine (detection pass, status text, report).      *)
(*                                                                         *)
(* Coordinates, fuel levels and movement deltas are integers, as           *)
(* random.randint produces them.  The Euclidean distance np.sqrt(d2) is    *)
(* represented by its square d2; because sqrt is monotone and exact on     *)
(* perfect squares, "np.sqrt(d2) <= range" is "d2 <= range * range".       *)
(* datetime.now() is the logical clock `now`; every call of a public       *)
(* operation advances it by one.  The model attribute of a Moto (a random  *)
(* catalogue name that no operation reads) and the matplotlib artists are  *)
(* left out.                                                               *)
(***************************************************************************)
EXTENDS Integers, Sequences, FiniteSets, TLC

VARIABLES
  motos,        \* simulation.motos: the list of Moto objects
  detections,   \* reader id -> that reader's self.detections log
  now,          \* the clock read by datetime.now()
  frame,        \* number of animation frames drawn so far
  status_text,  \* the text set on the status artist: <<>> or <<fields>>
  calls,        \* reader id -> its detect_motos calls: count, last input and return value
  call          \* the public call that produced this state

vars == <<motos, detections, now, frame, status_text, calls, call>>

(* ------------------------------ bounds -------------------------------- *)

\* largest num_motos the simulation is constructed with
MaxMotos == 2

\* number of public calls (operations and animation frames) in one run
MaxSteps == 2

(* --------------------------- configuration ---------------------------- *)

PATIO_WIDTH == 100

PATIO_HEIGHT == 80

AREAS ==
  [ entrada        |-> [x |-> 0,  y |-> 35, width |-> 10, height |-> 10],
    saida          |-> [x |-> 90, y |-> 35, width |-> 10, height |-> 10],
    estacionamento |-> [x |-> 20, y |-> 10, width |-> 60, height |-> 60],
    manutencao     |-> [x |-> 20, y |-> 70, width |-> 30, height |-> 10] ]

READERS ==
  << [id |-> 1, x |-> 5,  y |-> 40, range |-> 15],
     [id |-> 2, x |-> 95, y |-> 40, range |-> 15],
     [id |-> 3, x |-> 30, y |-> 30, range |-> 20],
     [id |-> 4, x |-> 60, y |-> 30, range |-> 20],
     [id |-> 5, x |-> 30, y |-> 60, range |-> 20],
     [id |-> 6, x |-> 60, y |-> 60, range |-> 20],
     [id |-> 7, x |-> 35, y |-> 75, range |-> 15] >>

ReaderIds == 1..Len(READERS)

STATUSES == {"disponivel", "reservada", "em manutencao"}

(* ------------------------------ helpers ------------------------------- *)

min(a, b) == IF b < a THEN b ELSE a

max(a, b) == IF b > a THEN b ELSE a

randint(a, b) == a..b

(* -------------------------------- Moto -------------------------------- *)

update_color(status) ==
  IF status = "disponivel" THEN "green"
  ELSE IF status = "reservada" THEN "blue"
  ELSE "orange"

record_position(m, t) ==
  [m EXCEPT !.movement_history =
     Append(@, [timestamp |-> t, x |-> m.x, y |-> m.y,
                status |-> m.status, fuel_level |-> m.fuel_level])]

\* placement without the inset margin of 5
PlacementX_NoInset(status) ==
  IF status = "em manutencao"
  THEN {AREAS.manutencao.x + d : d \in randint(0, AREAS.manutencao.width)}
  ELSE {AREAS.estacionamento.x + d : d \in randint(0, AREAS.estacionamento.width)}

\* the x and y a new Moto can be given: its zone, inset from the zone border
PlacementX(status) ==
  IF status = "em manutencao"
  THEN {AREAS.manutencao.x + d : d \in randint(5, AREAS.manutencao.width - 5)}
  ELSE {AREAS.estacionamento.x + d : d \in randint(5, AREAS.estacionamento.width - 5)}

PlacementY(status) ==
  IF status = "em manutencao"
  THEN {AREAS.manutencao.y + d : d \in randint(2, AREAS.manutencao.height - 2)}
  ELSE {AREAS.estacionamento.y + d : d \in randint(5, AREAS.estacionamento.height - 5)}

\* Moto.__init__: every Moto the constructor can produce at time t whose
\* random draws fall in the sampled outcomes `picks`
Moto(moto_id, t, picks) ==
  UNION { { record_position(
              [id |-> moto_id, status |-> s, fuel_level |-> f,
               last_maintenance |-> t - d, x |-> px, y |-> py,
               movement_history |-> <<>>, color |-> update_color(s)], t) :
            f \in randint(10, 100) \cap picks.fuel,
            d \in randint(0, 90) \cap picks.days,
            px \in PlacementX(s) \cap picks.x,
            py \in PlacementY(s) \cap picks.y } : s \in STATUSES }

\* move clamping y against the yard width instead of its height
move_WidthForHeight(m, dx, dy, t) ==
  LET x1 == m.x + dx
      y1 == m.y + dy
  IN record_position([m EXCEPT !.x = max(0, min(x1, PATIO_WIDTH)),
                               !.y = max(0, min(y1, PATIO_WIDTH))], t)

move(m, dx, dy, t) ==
  LET x1 == m.x + dx
      y1 == m.y + dy
  IN record_position([m EXCEPT !.x = max(0, min(x1, PATIO_WIDTH)),
                               !.y = max(0, min(y1, PATIO_HEIGHT))], t)

update_status(m, new_status, t) ==
  record_position([m EXCEPT !.status = new_status,
                            !.color = update_color(new_status)], t)

\* update_fuel without the lower clamp max(0, ...)
update_fuel_NoFloor(m, amount, t) ==
  record_position([m EXCEPT !.fuel_level = min(100, m.fuel_level + amount)], t)

update_fuel(m, amount, t) ==
  record_position([m EXCEPT !.fuel_level = max(0, min(100, m.fuel_level + amount))], t)

\* perform_maintenance refuelling through update_fuel: two snapshots
perform_maintenance_TwoSnapshots(m, t) ==
  update_status(update_fuel([m EXCEPT !.last_maintenance = t], 100, t),
                "disponivel", t)

\* perform_maintenance assigning self.status itself, without update_status
perform_maintenance_StaleColor(m, t) ==
  record_position([m EXCEPT !.last_maintenance = t, !.fuel_level = 100,
                            !.status = "disponivel"], t)

perform_maintenance(m, t) ==
  update_status([m EXCEPT !.last_maintenance = t, !.fuel_level = 100],
                "disponivel", t)

(* ----------------------------- RFIDReader ----------------------------- *)

\* (self.x - moto.x)**2 + (self.y - moto.y)**2, the square of `distance`
distance2(reader, moto) ==
  (reader.x - moto.x) * (reader.x - moto.x) + (reader.y - moto.y) * (reader.y - moto.y)

\* distance < self.range: the boundary left out
in_range_Strict(reader, moto) == distance2(reader, moto) < reader.range * reader.range

\* distance <= self.range
in_range(reader, moto) == distance2(reader, moto) <= reader.range * reader.range

\* record_detection that logs a moto once only
record_detection_Once(reader, moto, log, t) ==
  IF \E k \in DOMAIN log : log[k].moto_id = moto.id THEN log
  ELSE Append(log, [timestamp |-> t, moto_id |-> moto.id, moto_status |-> moto.status,
                    moto_x |-> moto.x, moto_y |-> moto.y,
                    distance2 |-> distance2(reader, moto)])

record_detection(reader, moto, log, t) ==
  Append(log, [timestamp |-> t, moto_id |-> moto.id, moto_status |-> moto.status,
               moto_x |-> moto.x, moto_y |-> moto.y,
               distance2 |-> distance2(reader, moto)])

\* the loop of detect_motos over the input list ms; log is self.detections
RECURSIVE detect_motos(_, _, _, _)
detect_motos(reader, ms, log, t) ==
  IF ms = <<>> THEN [detected |-> <<>>, detections |-> log]
  ELSE LET moto == Head(ms)
           hit  == in_range(reader, moto)
           rest == detect_motos(reader, Tail(ms),
                                IF hit THEN record_detection(reader, moto, log, t) ELSE log, t)
       IN [detected   |-> IF hit THEN <<moto>> \o rest.detected ELSE rest.detected,
           detections |-> rest.detections]

(* ------------------------ MottuPatioSimulation ------------------------ *)

\* extend that skips a moto another reader already reported in this frame
extend_detections_Dedup(all_detections, reader, detected, t) ==
  all_detections \o
    SelectSeq([k \in 1..Len(detected) |->
                 [reader_id |-> reader.id, moto_id |-> detected[k].id, timestamp |-> t]],
              LAMBDA e : \A k \in DOMAIN all_detections : all_detections[k].moto_id # e.moto_id)

\* all_detections.extend([{reader_id, moto_id, timestamp} for moto in detected])
extend_detections(all_detections, reader, detected, t) ==
  all_detections \o
    [k \in 1..Len(detected) |->
       [reader_id |-> reader.id, moto_id |-> detected[k].id, timestamp |-> t]]

\* the detection pass of update_visualization over readers r..7
RECURSIVE detection_pass(_, _, _, _)
detection_pass(r, ms, st, t) ==
  IF r > Len(READERS) THEN st
  ELSE LET res == detect_motos(READERS[r], ms, st.detections[r], t)
       IN detection_pass(r + 1, ms,
            [detections     |-> [st.detections EXCEPT ![r] = res.detections],
             calls          |-> [st.calls EXCEPT ![r] =
                                   [n |-> @.n + 1, motos |-> ms, detected |-> res.detected]],
             all_detections |-> extend_detections(st.all_detections, READERS[r],
                                                  res.detected, t)], t)

\* status counts where 'reservada' takes every moto that is not 'disponivel'
status_counts_Overlap(ms) ==
  [disponivel    |-> Cardinality({i \in DOMAIN ms : ms[i].status = "disponivel"}),
   reservada     |-> Cardinality({i \in DOMAIN ms : ms[i].status # "disponivel"}),
   em_manutencao |-> Cardinality({i \in DOMAIN ms : ms[i].status = "em manutencao"})]

status_counts(ms) ==
  [disponivel    |-> Cardinality({i \in DOMAIN ms : ms[i].status = "disponivel"}),
   reservada     |-> Cardinality({i \in DOMAIN ms : ms[i].status = "reservada"}),
   em_manutencao |-> Cardinality({i \in DOMAIN ms : ms[i].status = "em manutencao"})]

\* fuel brackets where 'baixo' starts above 20
fuel_levels_Gap(ms) ==
  [critico |-> Cardinality({i \in DOMAIN ms : ms[i].fuel_level < 20}),
   baixo   |-> Cardinality({i \in DOMAIN ms : 20 < ms[i].fuel_level /\ ms[i].fuel_level < 50}),
   medio   |-> Cardinality({i \in DOMAIN ms : 50 <= ms[i].fuel_level /\ ms[i].fuel_level < 80}),
   alto    |-> Cardinality({i \in DOMAIN ms : ms[i].fuel_level >= 80})]

fuel_levels(ms) ==
  [critico |-> Cardinality({i \in DOMAIN ms : ms[i].fuel_level < 20}),
   baixo   |-> Cardinality({i \in DOMAIN ms : 20 <= ms[i].fuel_level /\ ms[i].fuel_level < 50}),
   medio   |-> Cardinality({i \in DOMAIN ms : 50 <= ms[i].fuel_level /\ ms[i].fuel_level < 80}),
   alto    |-> Cardinality({i \in DOMAIN ms : ms[i].fuel_level >= 80})]

generate_report ==
  [total_motos       |-> Len(motos),
   status_counts     |-> status_counts(motos),
   fuel_levels       |-> fuel_levels(motos),
   reader_detections |-> [r \in ReaderIds |-> Len(detections[r])]]

(* ---------------------------- initial state --------------------------- *)

\* sampled outcomes of the random draws of Moto.__init__
CoarsePicks ==
  [fuel |-> {10}, days |-> {90}, x |-> {45}, y |-> {30, 75}]

FinePicks ==
  [fuel |-> {10, 100}, days |-> {0}, x |-> {25, 45, 75}, y |-> {15, 40, 65, 72, 78}]

RECURSIVE Fleets(_, _)
\* [Moto() for _ in range(n)]
Fleets(n, picks) ==
  IF n = 0 THEN {<<>>}
  ELSE {Append(ms, m) : ms \in Fleets(n - 1, picks), m \in Moto(n, 0, picks)}

Called(op, i, a, b, s) == [op |-> op, i |-> i, a |-> a, b |-> b, s |-> s]

NoCall == [n |-> 0, motos |-> <<>>, detected |-> <<>>]

InitWith(picks) ==
  /\ \E n \in 0..MaxMotos : motos \in Fleets(n, picks)
  /\ detections = [r \in ReaderIds |-> <<>>]
  /\ calls = [r \in ReaderIds |-> NoCall]
  /\ now = 0
  /\ frame = 0
  /\ status_text = <<>>
  /\ call = Called("__init__", 0, 0, 0, "")

Init == InitWith(CoarsePicks)

InitDefault == InitWith(FinePicks)

(* ------------------------------- actions ------------------------------ *)

FuelAmounts == {-150, 10, 150}

MoveDeltas == {<<5, 0>>, <<200, 200>>, <<-200, -200>>}

Reverse(s) == [k \in 1..Len(s) |-> s[Len(s) + 1 - k]]

Move(i, d) ==
  /\ now < MaxSteps
  /\ now' = now + 1
  /\ motos' = [motos EXCEPT ![i] = move(@, d[1], d[2], now')]
  /\ call' = Called("move", i, d[1], d[2], "")
  /\ UNCHANGED <<detections, frame, status_text, calls>>

UpdateStatus(i, s) ==
  /\ now < MaxSteps
  /\ now' = now + 1
  /\ motos' = [motos EXCEPT ![i] = update_status(@, s, now')]
  /\ call' = Called("update_status", i, 0, 0, s)
  /\ UNCHANGED <<detections, frame, status_text, calls>>

UpdateFuel(i, a) ==
  /\ now < MaxSteps
  /\ now' = now + 1
  /\ motos' = [motos EXCEPT ![i] = update_fuel(@, a, now')]
  /\ call' = Called("update_fuel", i, a, 0, "")
  /\ UNCHANGED <<detections, frame, status_text, calls>>

PerformMaintenance(i) ==
  /\ now < MaxSteps
  /\ now' = now + 1
  /\ motos' = [motos EXCEPT ![i] = perform_maintenance(@, now')]
  /\ call' = Called("perform_maintenance", i, 0, 0, "")
  /\ UNCHANGED <<detections, frame, status_text, calls>>

\* a direct call reader.detect_motos(ms) with the fleet in either order
DetectMotos(r, ms) ==
  /\ now < MaxSteps
  /\ now' = now + 1
  /\ LET res == detect_motos(READERS[r], ms, detections[r], now')
     IN /\ detections' = [detections EXCEPT ![r] = res.detections]
        /\ calls' = [calls EXCEPT ![r] =
                       [n |-> @.n + 1, motos |-> ms, detected |-> res.detected]]
  /\ call' = Called("detect_motos", r, 0, 0, "")
  /\ UNCHANGED <<motos, frame, status_text>>

\* update_visualization(frame): one animation frame
UpdateVisualization ==
  /\ now < MaxSteps
  /\ now' = now + 1
  /\ frame' = frame + 1
  /\ LET st == detection_pass(1, motos,
                 [detections |-> detections, calls |-> calls, all_detections |-> <<>>],
                 now')
         sc == status_counts(motos)
     IN /\ detections' = st.detections
        /\ calls' = st.calls
        /\ status_text' =
             << [total_de_motos |-> Len(motos),
                 disponiveis    |-> sc.disponivel,
                 reservadas     |-> sc.reservada,
                 em_manutencao  |-> sc.em_manutencao,
                 deteccoes_rfid |-> Len(st.all_detections)] >>
  /\ call' = Called("update_visualization", 0, frame, 0, "")
  /\ UNCHANGED motos

Next ==
  \/ \E i \in DOMAIN motos, d \in MoveDeltas : Move(i, d)
  \/ \E i \in DOMAIN motos, s \in STATUSES : UpdateStatus(i, s)
  \/ \E i \in DOMAIN motos, a \in FuelAmounts : UpdateFuel(i, a)
  \/ \E i \in DOMAIN motos : PerformMaintenance(i)
  \/ \E r \in ReaderIds, ms \in {motos, Reverse(motos)} : DetectMotos(r, ms)
  \/ UpdateVisualization

Spec == Init /\ [][Next]_vars

\* the default session: run_simulation only drives update_visualization
NextDefault == UpdateVisualization

SpecDefault == InitDefault /\ [][NextDefault]_vars

(* ------------------------------- claims ------------------------------- *)

Hist(i) == motos[i].movement_history

\* squared Euclidean distance <= squared radius, from the READERS table
Within(r, x, y) ==
  (READERS[r].x - x) ^ 2 + (READERS[r].y - y) ^ 2 <= READERS[r].range ^ 2

\* C1: whatever calls were made, the three status counts of generate_report
\* add up to the total_motos it reports.
C1_StatusCountsSum ==
  LET rep == generate_report
  IN rep.status_counts.disponivel + rep.status_counts.reservada
       + rep.status_counts.em_manutencao = rep.total_motos

\* a fleet holding all three statuses after a status change and a maintenance
C1_Witness ==
  /\ Len(motos) = 2
  /\ \E i \in DOMAIN motos :
       /\ Len(Hist(i)) = 3
       /\ Hist(i)[1].status = "disponivel"
       /\ Hist(i)[2].status = "em manutencao"
       /\ Hist(i)[3].status = "disponivel"
  /\ generate_report.status_counts.disponivel = 1
  /\ generate_report.status_counts.disponivel + generate_report.status_counts.reservada
       + generate_report.status_counts.em_manutencao = 2

C3_FuelInRange ==
  \A i \in DOMAIN motos :
    /\ motos[i].fuel_level \in 0..100
    /\ \A k \in DOMAIN Hist(i) : Hist(i)[k].fuel_level \in 0..100

\* update_fuel(-150) took a moto from 10 to the floor, update_fuel(150) to the cap
C3_Witness ==
  \E i \in DOMAIN motos :
    /\ Len(Hist(i)) = 3
    /\ Hist(i)[1].fuel_level = 10
    /\ Hist(i)[2].fuel_level = 0
    /\ motos[i].fuel_level = 100
    /\ call.op = "update_fuel" /\ call.a = 150

InYard(m) == m.x \in 0..PATIO_WIDTH /\ m.y \in 0..PATIO_HEIGHT

Clamped(v, hi) == IF v > hi THEN hi ELSE IF v < 0 THEN 0 ELSE v

\* C4: every moto is inside the yard before and after every step, and a
\* move(dx, dy) leaves it at the sum clamped to the nearest bound, per axis.
C4_PositionInYard ==
  [][ /\ \A i \in DOMAIN motos : InYard(motos[i]) /\ InYard(motos'[i])
      /\ call'.op = "move" =>
           /\ motos'[call'.i].x = Clamped(motos[call'.i].x + call'.a, PATIO_WIDTH)
           /\ motos'[call'.i].y = Clamped(motos[call'.i].y + call'.b, PATIO_HEIGHT)
    ]_vars

\* move(200, 200) from x = 50 ended in the far corner of the yard
C4_Witness ==
  /\ call.op = "move" /\ call.a = 200
  /\ Len(Hist(call.i)) = 3
  /\ Hist(call.i)[2].x = 50
  /\ motos[call.i].x = PATIO_WIDTH
  /\ motos[call.i].y = PATIO_HEIGHT

\* C5: the value detect_motos returned is the input list filtered, in input
\* order, to the motos whose distance to the reader is <= its range.
C5_DetectExactSubset ==
  \A r \in ReaderIds :
    calls[r].detected = SelectSeq(calls[r].motos, LAMBDA m : Within(r, m.x, m.y))

\* a reader was given the two motos in reverse order; one is exactly on its
\* radius, the other inside, and both came back in the order given
C5_Witness ==
  \E r \in ReaderIds :
    /\ call.op = "detect_motos" /\ call.i = r
    /\ Len(calls[r].motos) = 2
    /\ calls[r].motos[1].id = 2
    /\ Len(calls[r].detected) = 2
    /\ calls[r].detected[1].id = 2
    /\ \E k \in 1..2 : distance2(READERS[r], calls[r].detected[k])
                         = READERS[r].range * READERS[r].range

Snapshot(m) == [x |-> m.x, y |-> m.y, status |-> m.status, fuel_level |-> m.fuel_level]

SameState(snap, m) ==
  /\ snap.x = m.x /\ snap.y = m.y
  /\ snap.status = m.status /\ snap.fuel_level = m.fuel_level

\* C6: update_status, update_fuel and perform_maintenance append exactly one
\* snapshot, equal to the moto's state after the call; older snapshots stay as
\* they were, and the last snapshot always equals the current state.
C6_OneSnapshotPerChange ==
  [][ \A i \in DOMAIN motos :
        LET h  == motos[i].movement_history
            h2 == motos'[i].movement_history
        IN /\ SameState(h[Len(h)], motos[i])
           /\ SameState(h2[Len(h2)], motos'[i])
           /\ SubSeq(h2, 1, Len(h)) = h
           /\ (\/ motos'[i].status # motos[i].status
               \/ motos'[i].fuel_level # motos[i].fuel_level
               \/ (call'.i = i /\ call'.op \in {"update_status", "update_fuel",
                                               "perform_maintenance"}))
                => Len(h2) = Len(h) + 1
    ]_vars

\* perform_maintenance changed fuel and status at once and left one snapshot
C6_Witness ==
  /\ call.op = "perform_maintenance"
  /\ Len(Hist(call.i)) = 2
  /\ Hist(call.i)[1].status = "reservada" /\ Hist(call.i)[1].fuel_level = 10
  /\ Hist(call.i)[2].status = "disponivel" /\ Hist(call.i)[2].fuel_level = 100

\* C7: a detect_motos call appends one event per returned moto, in returned
\* order, after the events already logged; nothing else changes a log.
C7_LogOnlyGrows ==
  [][ \A r \in ReaderIds :
        IF calls'[r].n = calls[r].n THEN detections'[r] = detections[r]
        ELSE LET out == calls'[r].detected
                 old == detections[r]
                 new == detections'[r]
             IN /\ calls'[r].n = calls[r].n + 1
                /\ Len(new) = Len(old) + Len(out)
                /\ SubSeq(new, 1, Len(old)) = old
                /\ \A k \in 1..Len(out) : new[Len(old) + k].moto_id = out[k].id
    ]_vars

\* two calls on the same unmoved motos: the log holds twice the motos in range
C7_Witness ==
  \E r \in ReaderIds :
    /\ calls[r].n = 2
    /\ \A i \in DOMAIN motos : Len(Hist(i)) = 1
    /\ Len(calls[r].detected) = 2
    /\ Len(detections[r]) = 4
    /\ detections[r][3].moto_id = detections[r][1].moto_id

\* C8: perform_maintenance leaves fuel 100, status 'disponivel', color green,
\* last_maintenance at the time of the call, and the position where it was.
C8_MaintenanceResult ==
  [][ call'.op = "perform_maintenance" =>
        LET m == motos'[call'.i]
        IN /\ m.fuel_level = 100
           /\ m.status = "disponivel"
           /\ m.color = "green"
           /\ m.last_maintenance = now'
           /\ m.x = motos[call'.i].x /\ m.y = motos[call'.i].y
    ]_vars

\* the scenario of the specification: fuel 10, 'em manutencao', then service
C8_Witness ==
  /\ call.op = "perform_maintenance"
  /\ Hist(call.i)[Len(Hist(call.i)) - 1].status = "em manutencao"
  /\ Hist(call.i)[Len(Hist(call.i)) - 1].fuel_level = 10
  /\ motos[call.i].color = "green"
  /\ motos[call.i].last_maintenance = now

\* C9: the detection count of a frame's status text is the number of
\* (reader, moto) pairs in range: a moto seen by k readers counts k times.
C9_DetectionsPerReader ==
  [][ call'.op = "update_visualization" =>
        status_text'[1].deteccoes_rfid =
          Cardinality({p \in ReaderIds \X DOMAIN motos :
                         Within(p[1], motos[p[2]].x, motos[p[2]].y)})
    ]_vars

\* one frame counted more detections than there are motos
C9_Witness ==
  /\ call.op = "update_visualization"
  /\ status_text[1].deteccoes_rfid = 2 * status_text[1].total_de_motos
  /\ \E i \in DOMAIN motos : Within(3, motos[i].x, motos[i].y) /\ Within(4, motos[i].x, motos[i].y)

\* no placement of Moto.__init__, over the whole range of its random draws,
\* is within the range of reader 1 or reader 2
PlacementClear ==
  \A s \in STATUSES : \A px \in PlacementX(s) : \A py \in PlacementY(s) :
    ~Within(1, px, py) /\ ~Within(2, px, py)

\* C10: in the default session (frames only, no move) readers 1 and 2 never
\* log a detection and generate_report shows 0 for both.
C10_EntryExitSilent ==
  /\ PlacementClear
  /\ detections[1] = <<>> /\ detections[2] = <<>>
  /\ calls[1].detected = <<>> /\ calls[2].detected = <<>>
  /\ generate_report.reader_detections[1] = 0
  /\ generate_report.reader_detections[2] = 0

\* two frames ran with a moto on the parking edge nearest reader 1 and one
\* nearest reader 2; the sector readers logged detections
C10_Witness ==
  /\ frame = 2
  /\ calls[1].n = 2 /\ calls[2].n = 2
  /\ \E i \in DOMAIN motos : motos[i].x = 25 /\ motos[i].y = 40
  /\ \E i \in DOMAIN motos : motos[i].x = 75 /\ motos[i].y = 40
  /\ \E r \in ReaderIds : detections[r] # <<>>
====
